---- MODULE Spec2Model ----
(***************************************************************************)
(* Model of src/lib/richText.tsx: the rich-text mini-markup renderer       *)
(* (renderBracketHighlights, renderRichTextInternal, renderRichText and    *)
(* the RichText component).                                                *)
(*                                                                         *)
(* A JavaScript string is a sequence of one-character strings (UTF-16 code *)
(* units).  The glyph U+300A (left double angle bracket) is written "<"    *)
(* and U+300B (right double angle bracket) is written ">".  Offsets are    *)
(* 0-based as in the source: Slice(s, a, b) is s.slice(a, b).              *)
(***************************************************************************)
EXTENDS Integers, Sequences, FiniteSets, TLC

VARIABLES
    text,       \* the argument: a sequence of characters, or Absent (undefined)
    pc,         \* "idle" | "returned" (renderRichText returned) | "mounted" (RichText rendered)
    nodes,      \* the array returned by renderRichText
    maxDepth,   \* the largest depth renderRichTextInternal was invoked with (-1: not invoked)
    view,       \* what the RichText component returned: [kind |-> "null"] or a fragment
    stack,      \* the activations of a call of renderRichText that runs step by step
    hook,       \* the content hook in use ("none": no hook is mounted)
    filePath,   \* the argument of useMarkdownContent
    data,       \* the state cell index / content / data
    loading,    \* the state cell loading
    error,      \* the state cell error
    loads,      \* the calls of the hook's async load function, in the order they started
    effectDue,  \* the hook's effect has been scheduled by a render and has not run yet
    changes,    \* how many times the parent has changed filePath
    cells,      \* the Undergrad page: per hook, its state cells and the stage of its load
    screen,     \* the Undergrad page: what its last render returned
    imagesMounted,    \* the ScaledImage instances are mounted
    isOpen,           \* per ScaledImage instance (in tree order): its isOpen state
    originalOverflow, \* per instance: the value its overflow effect captured
    bodyOverflow,     \* document.body.style.overflow
    initialOverflow,  \* document.body.style.overflow before any lightbox was opened
    announcements,    \* the array the caller passes to getLatestAnnouncements
    limit,            \* the limit argument: <<n>>, or NoLimit when it is left out
    passed,           \* the contents of the caller's array when the call was made
    latest,           \* the array getLatestAnnouncements returned
    called            \* getLatestAnnouncements has returned

scanVars == <<stack>>

richTextVars == <<text, pc, nodes, maxDepth, view, scanVars>>

hookVars == <<hook, filePath, data, loading, error, loads, effectDue, changes>>

pageVars == <<cells, screen>>

imageVars == <<imagesMounted, isOpen, originalOverflow, bodyOverflow, initialOverflow>>

announcementVars == <<announcements, limit, passed, latest, called>>

vars == <<richTextVars, hookVars, pageVars, imageVars, announcementVars>>

\* What each part of the model leaves alone.
outsideRichText == <<hookVars, pageVars, imageVars, announcementVars>>

outsideHooks == <<richTextVars, pageVars, imageVars, announcementVars>>

outsidePage == <<richTextVars, hookVars, imageVars, announcementVars>>

outsideImages == <<richTextVars, hookVars, pageVars, announcementVars>>

outsideAnnouncements == <<richTextVars, hookVars, pageVars, imageVars>>

Null == "null"

\* No hook is mounted.
HooksIdle ==
    /\ hook = "none"
    /\ filePath = ""
    /\ data = Null
    /\ loading = FALSE
    /\ error = Null
    /\ loads = <<>>
    /\ effectDue = FALSE
    /\ changes = 0

\* No call of renderRichText is made.
RichTextIdle ==
    /\ text = <<>>
    /\ pc = "idle"
    /\ nodes = <<>>
    /\ maxDepth = -1
    /\ view = [kind |-> "none", children |-> <<>>]
    /\ stack = <<>>

\* The hooks the Undergrad page calls.
PageHooks == { "useContentIndex", "useUndergradSummary", "useUndergradTimeline" }

\* The Undergrad page is not mounted.
PageIdle ==
    /\ cells = [h \in PageHooks |->
                  [data |-> Null, loading |-> FALSE, error |-> Null, stage |-> "unmounted"]]
    /\ screen = [kind |-> "none", message |-> Null]

\* No ScaledImage is mounted.
ImagesIdle ==
    /\ imagesMounted = FALSE
    /\ isOpen = <<>>
    /\ originalOverflow = <<>>
    /\ bodyOverflow = ""
    /\ initialOverflow = ""

\* The argument list of a call that leaves the limit out; <<n>> passes n.
NoLimit == <<>>

\* getLatestAnnouncements is not called.
AnnouncementsIdle ==
    /\ announcements = <<>>
    /\ limit = NoLimit
    /\ passed = <<>>
    /\ latest = <<>>
    /\ called = FALSE

OutsideRichTextIdle == HooksIdle /\ PageIdle /\ ImagesIdle /\ AnnouncementsIdle

OutsideHooksIdle == RichTextIdle /\ PageIdle /\ ImagesIdle /\ AnnouncementsIdle

OutsidePageIdle == RichTextIdle /\ HooksIdle /\ ImagesIdle /\ AnnouncementsIdle

OutsideImagesIdle == RichTextIdle /\ HooksIdle /\ PageIdle /\ AnnouncementsIdle

OutsideAnnouncementsIdle == RichTextIdle /\ HooksIdle /\ PageIdle /\ ImagesIdle

(***************************************************************************)
(* Bounds of the checked inputs.                                           *)
(***************************************************************************)
MaxPieces == 4
MaxNest == 10
MaxInner == 3
MaxRuns == 5
MaxScan == 4
MaxChanges == 2
MaxImages == 4
MaxAnnouncements == 3

(***************************************************************************)
(* Characters.                                                             *)
(***************************************************************************)
LB == "<"
RB == ">"

\* The character class [a-zA-Z0-9_-] of the style-token pattern.
KeyChars ==
    { "a","b","c","d","e","f","g","h","i","j","k","l","m",
      "n","o","p","q","r","s","t","u","v","w","x","y","z",
      "A","B","C","D","E","F","G","H","I","J","K","L","M",
      "N","O","P","Q","R","S","T","U","V","W","X","Y","Z",
      "0","1","2","3","4","5","6","7","8","9","_","-" }

\* s.slice(a, b) and s.slice(a), 0-based offsets.
Slice(s, a, b) == SubSeq(s, a + 1, b)

\* Mutant: the remainder is taken one character too late.
SliceFrom_SkipsOne(s, a) == SubSeq(s, a + 2, Len(s))

SliceFrom(s, a) == SubSeq(s, a + 1, Len(s))

\* s[i], 0-based.
CharAt(s, i) == s[i + 1]

(***************************************************************************)
(* RICH_TEXT_STYLES.  Keys are character sequences.                        *)
(***************************************************************************)
RICH_TEXT_STYLES ==
    ( <<"m","a","r","k">> :> "text-red-600 font-bold" ) @@
    ( <<"r","e","d">> :> "text-red-600 font-semibold" ) @@
    ( <<"d","a","n","g","e","r">> :> "text-red-600 font-semibold" ) @@
    ( <<"a","m","b","e","r">> :> "text-amber-600 font-semibold" ) @@
    ( <<"w","a","r","n","i","n","g">> :> "text-amber-600 font-semibold" ) @@
    ( <<"g","r","e","e","n">> :> "text-emerald-600 font-semibold" ) @@
    ( <<"s","u","c","c","e","s","s">> :> "text-emerald-600 font-semibold" ) @@
    ( <<"b","l","u","e">> :> "text-blue-600 font-semibold" ) @@
    ( <<"i","n","f","o">> :> "text-blue-600 font-semibold" ) @@
    ( <<"p","r","i","m","a","r","y">> :> "text-primary-700 font-semibold" ) @@
    ( <<"m","u","t","e","d">> :> "text-neutral-600" ) @@
    ( <<"s","t","r","o","n","g">> :> "font-semibold text-primary-900" ) @@
    ( <<"u","n","d","e","r","l","i","n","e">> :> "underline" )

MarkClass == RICH_TEXT_STYLES[<<"m","a","r","k">>]

\* Members every object literal inherits from Object.prototype; a property
\* read RICH_TEXT_STYLES[k] finds them for these k although the literal does
\* not list them.
ObjectPrototypeKeys ==
    { <<"c","o","n","s","t","r","u","c","t","o","r">>,
      <<"t","o","S","t","r","i","n","g">>,
      <<"t","o","L","o","c","a","l","e","S","t","r","i","n","g">>,
      <<"v","a","l","u","e","O","f">>,
      <<"h","a","s","O","w","n","P","r","o","p","e","r","t","y">>,
      <<"i","s","P","r","o","t","o","t","y","p","e","O","f">>,
      <<"p","r","o","p","e","r","t","y","I","s","E","n","u","m","e","r","a","b","l","e">>,
      <<"_","_","p","r","o","t","o","_","_">> }

InheritedMember == "[Object.prototype member]"

Undefined == "undefined"

\* Mutant: every registered key resolves to the mark class.
StyleLookup_AlwaysMark(styleKey) ==
    IF styleKey \in DOMAIN RICH_TEXT_STYLES THEN MarkClass
    ELSE IF styleKey \in ObjectPrototypeKeys THEN InheritedMember
    ELSE Undefined

\* (RICH_TEXT_STYLES as Record<string, string | undefined>)[styleKey]
StyleLookup(styleKey) ==
    IF styleKey \in DOMAIN RICH_TEXT_STYLES THEN RICH_TEXT_STYLES[styleKey]
    ELSE IF styleKey \in ObjectPrototypeKeys THEN InheritedMember
    ELSE Undefined

\* JavaScript truthiness of a looked-up style class.
Truthy(v) == v # Undefined /\ v # ""

(***************************************************************************)
(* Nodes.  A string child is a text node; a <span> is a styled node.       *)
(***************************************************************************)
TextNode(value) == [type |-> "text", value |-> value]

Span(key, className, children) ==
    [type |-> "span", key |-> key, className |-> className, children |-> children]

\* String.prototype.trim
Whitespace == { " ", "\t", "\n", "\r" }

RECURSIVE TrimStart(_)
TrimStart(s) ==
    IF s # <<>> /\ Head(s) \in Whitespace THEN TrimStart(Tail(s)) ELSE s

RECURSIVE TrimEnd(_)
TrimEnd(s) ==
    IF s # <<>> /\ s[Len(s)] \in Whitespace THEN TrimEnd(SubSeq(s, 1, Len(s) - 1)) ELSE s

Trim(s) == TrimEnd(TrimStart(s))

NoMatch == [found |-> FALSE]

(***************************************************************************)
(* bracketHighlightRegex = /<[^>]+>/g  (with the two glyphs), one exec     *)
(* starting at lastIndex.                                                  *)
(***************************************************************************)
\* Offset of the first RB at or after offset p, or -1.
RECURSIVE FirstRB(_, _)
FirstRB(s, p) ==
    IF p >= Len(s) THEN -1
    ELSE IF CharAt(s, p) = RB THEN p
    ELSE FirstRB(s, p + 1)

\* Mutant: the pattern asks for two or more characters between the glyphs.
BracketMatchAt_TwoOrMore(s, i) ==
    IF i < Len(s) /\ CharAt(s, i) = LB
    THEN LET j == FirstRB(s, i + 1)
         IN  IF j > i + 2
             THEN [found |-> TRUE, index |-> i, full |-> Slice(s, i, j + 1)]
             ELSE NoMatch
    ELSE NoMatch

\* The match of the pattern that starts exactly at offset i, if any:
\* LB, then one or more characters other than RB (greedy), then RB.
BracketMatchAt(s, i) ==
    IF i < Len(s) /\ CharAt(s, i) = LB
    THEN LET j == FirstRB(s, i + 1)
         IN  IF j > i + 1
             THEN [found |-> TRUE, index |-> i, full |-> Slice(s, i, j + 1)]
             ELSE NoMatch
    ELSE NoMatch

\* Mutant: a sticky pattern, which only matches at lastIndex itself.
BracketExec_Sticky(s, lastIndex) ==
    IF lastIndex >= Len(s) THEN NoMatch ELSE BracketMatchAt(s, lastIndex)

\* Mutant: after a match the regex object's lastIndex is the start of the
\* match, as if the match were empty.
RegexAdvance_Stay(match) == match.index

\* The lastIndex a global regex object holds after exec returned the match:
\* the offset just after the matched text.
RegexAdvance(match) == match.index + Len(match.full)

RECURSIVE BracketExec(_, _)
BracketExec(s, lastIndex) ==
    IF lastIndex >= Len(s) THEN NoMatch
    ELSE LET m == BracketMatchAt(s, lastIndex)
         IN  IF m.found THEN m ELSE BracketExec(s, lastIndex + 1)

(***************************************************************************)
(* styleTokenRegex = /\{\{([a-zA-Z0-9_-]+):([\s\S]*?)\}\}/g, one exec      *)
(* starting at lastIndex.                                                  *)
(***************************************************************************)
\* Offset just after the run of key characters that starts at offset p.
RECURSIVE KeyRunEnd(_, _)
KeyRunEnd(s, p) ==
    IF p < Len(s) /\ CharAt(s, p) \in KeyChars THEN KeyRunEnd(s, p + 1) ELSE p

\* Offset of the first "}}" at or after offset p, or -1: the lazy content
\* capture stops there.
\* Mutant: the last "}}" at or after offset p, as a greedy capture finds it.
RECURSIVE FirstClose_Last(_, _)
FirstClose_Last(s, p) ==
    IF p + 1 >= Len(s) THEN -1
    ELSE LET later == FirstClose_Last(s, p + 1)
         IN  IF later >= 0 THEN later
             ELSE IF CharAt(s, p) = "}" /\ CharAt(s, p + 1) = "}" THEN p
             ELSE -1

RECURSIVE FirstClose(_, _)
FirstClose(s, p) ==
    IF p + 1 >= Len(s) THEN -1
    ELSE IF CharAt(s, p) = "}" /\ CharAt(s, p + 1) = "}" THEN p
    ELSE FirstClose(s, p + 1)

\* Mutant: a token without a closing "}}" runs to the end of the text.
StyleMatchAt_UnterminatedToEnd(s, i) ==
    IF i + 1 < Len(s) /\ CharAt(s, i) = "{" /\ CharAt(s, i + 1) = "{"
    THEN LET e == KeyRunEnd(s, i + 2)
         IN  IF e > i + 2 /\ e < Len(s) /\ CharAt(s, e) = ":"
             THEN LET c == FirstClose(s, e + 1)
                      stop == IF c >= 0 THEN c ELSE Len(s)
                  IN  [found |-> TRUE, index |-> i,
                       full |-> Slice(s, i, IF c >= 0 THEN c + 2 ELSE Len(s)),
                       rawStyleKey |-> Slice(s, i + 2, e),
                       rawContent |-> Slice(s, e + 1, stop)]
             ELSE NoMatch
    ELSE NoMatch

\* Mutant: the content capture is greedy and runs to the last "}}".
StyleMatchAt_Greedy(s, i) ==
    IF i + 1 < Len(s) /\ CharAt(s, i) = "{" /\ CharAt(s, i + 1) = "{"
    THEN LET e == KeyRunEnd(s, i + 2)
         IN  IF e > i + 2 /\ e < Len(s) /\ CharAt(s, e) = ":"
             THEN LET c == FirstClose_Last(s, e + 1)
                  IN  IF c >= 0
                      THEN [found |-> TRUE, index |-> i,
                            full |-> Slice(s, i, c + 2),
                            rawStyleKey |-> Slice(s, i + 2, e),
                            rawContent |-> Slice(s, e + 1, c)]
                      ELSE NoMatch
             ELSE NoMatch
    ELSE NoMatch

\* The match that starts exactly at offset i, if any.  The key class does
\* not contain ":", so the key is the whole run of key characters and the
\* next character must be ":".
StyleMatchAt(s, i) ==
    IF i + 1 < Len(s) /\ CharAt(s, i) = "{" /\ CharAt(s, i + 1) = "{"
    THEN LET e == KeyRunEnd(s, i + 2)
         IN  IF e > i + 2 /\ e < Len(s) /\ CharAt(s, e) = ":"
             THEN LET c == FirstClose(s, e + 1)
                  IN  IF c >= 0
                      THEN [found |-> TRUE, index |-> i,
                            full |-> Slice(s, i, c + 2),
                            rawStyleKey |-> Slice(s, i + 2, e),
                            rawContent |-> Slice(s, e + 1, c)]
                      ELSE NoMatch
             ELSE NoMatch
    ELSE NoMatch

RECURSIVE StyleExec(_, _)
StyleExec(s, lastIndex) ==
    IF lastIndex >= Len(s) THEN NoMatch
    ELSE LET m == StyleMatchAt(s, lastIndex)
         IN  IF m.found THEN m ELSE StyleExec(s, lastIndex + 1)

(***************************************************************************)
(* renderBracketHighlights(text, keyPrefix)                                *)
(***************************************************************************)
\* Mutant: the key of a mark node leaves out the match index.
MarkKey_NoIndex(keyPrefix, matchIndex) == keyPrefix \o "-mark"

\* `${keyPrefix}-mark-${matchIndex}`
MarkKey(keyPrefix, matchIndex) == keyPrefix \o "-mark-" \o ToString(matchIndex)

\* The while loop, from the state (lastIndex, matchIndex, nodes).
RECURSIVE BracketLoop(_, _, _, _, _)
\* Mutant: the mark node is pushed before the text of the gap in front of it.
BracketLoop_MarkFirst(s, keyPrefix, lastIndex, matchIndex, acc) ==
    LET match == BracketExec(s, lastIndex)
    IN  IF match.found
        THEN LET start == match.index
                 gap == IF start > lastIndex
                        THEN <<TextNode(Slice(s, lastIndex, start))>>
                        ELSE <<>>
                 mark == Span(MarkKey(keyPrefix, matchIndex),
                              MarkClass, <<TextNode(match.full)>>)
             IN  BracketLoop(s, keyPrefix, start + Len(match.full), matchIndex + 1,
                             acc \o <<mark>> \o gap)
        ELSE IF lastIndex < Len(s)
             THEN acc \o <<TextNode(SliceFrom(s, lastIndex))>>
             ELSE acc

BracketLoop(s, keyPrefix, lastIndex, matchIndex, acc) ==
    LET match == BracketExec(s, lastIndex)
    IN  IF match.found
        THEN LET start == match.index
                 gap == IF start > lastIndex
                        THEN <<TextNode(Slice(s, lastIndex, start))>>
                        ELSE <<>>
                 mark == Span(MarkKey(keyPrefix, matchIndex),
                              MarkClass, <<TextNode(match.full)>>)
             IN  BracketLoop(s, keyPrefix, start + Len(match.full), matchIndex + 1,
                             acc \o gap \o <<mark>>)
        ELSE IF lastIndex < Len(s)
             THEN acc \o <<TextNode(SliceFrom(s, lastIndex))>>
             ELSE acc

\* Mutant: the scan position starts at 1, so the first character is skipped.
renderBracketHighlights_FromOne(s, keyPrefix) == BracketLoop(s, keyPrefix, 1, 0, <<>>)

renderBracketHighlights(s, keyPrefix) == BracketLoop(s, keyPrefix, 0, 0, <<>>)

(***************************************************************************)
(* renderRichTextInternal(text, keyPrefix, depth)                          *)
(***************************************************************************)
DepthCeiling == 8

\* `${keyPrefix}-span-${matchIndex}`
SpanKey(keyPrefix, matchIndex) == keyPrefix \o "-span-" \o ToString(matchIndex)

\* `${keyPrefix}-p-${matchIndex}`, the key prefix of the gap before a token.
GapPrefix(keyPrefix, matchIndex) == keyPrefix \o "-p-" \o ToString(matchIndex)

\* `${keyPrefix}-s-${matchIndex}`, the key prefix of a token's content.
ContentPrefix(keyPrefix, matchIndex) == keyPrefix \o "-s-" \o ToString(matchIndex)

\* `${keyPrefix}-tail`, the key prefix of the text after the last token.
TailPrefix(keyPrefix) == keyPrefix \o "-tail"

\* The node(s) pushed for one matched token.
TokenNodes(styleKey, keyPrefix, matchIndex, children) ==
    LET styleClass == StyleLookup(styleKey)
    IN  IF Truthy(styleClass)
        THEN <<Span(SpanKey(keyPrefix, matchIndex), styleClass, children)>>
        ELSE children

\* Mutant: the depth ceiling is 0, so token content is never interpreted.
DepthExceeded_AtZero(depth) == depth > 0

\* The guard at the top of renderRichTextInternal.
DepthExceeded(depth) == depth > DepthCeiling

\* An absent (undefined) text argument; it is not a string.
Absent == <<"undefined">>

\* Mutant: only the empty string is treated as nothing to render.
Falsy_EmptyOnly(s) == s = <<>>

\* !text
Falsy(s) == s = Absent \/ s = <<>>

RECURSIVE renderRichTextInternal(_, _, _)
RECURSIVE StyleLoop(_, _, _, _, _, _)
StyleLoop(s, keyPrefix, depth, lastIndex, matchIndex, acc) ==
    LET match == StyleExec(s, lastIndex)
    IN  IF match.found
        THEN LET start == match.index
                 styleKey == Trim(match.rawStyleKey)
                 content == match.rawContent
                 before == IF start > lastIndex
                           THEN renderBracketHighlights(Slice(s, lastIndex, start),
                                    GapPrefix(keyPrefix, matchIndex))
                           ELSE <<>>
                 children == renderRichTextInternal(content,
                                 ContentPrefix(keyPrefix, matchIndex), depth + 1)
             IN  StyleLoop(s, keyPrefix, depth, start + Len(match.full), matchIndex + 1,
                           acc \o before \o TokenNodes(styleKey, keyPrefix, matchIndex, children))
        ELSE IF lastIndex < Len(s)
             THEN acc \o renderBracketHighlights(SliceFrom(s, lastIndex), TailPrefix(keyPrefix))
             ELSE acc

renderRichTextInternal(s, keyPrefix, depth) ==
    IF Falsy(s) THEN <<>>
    ELSE IF DepthExceeded(depth) THEN <<TextNode(s)>>
    ELSE StyleLoop(s, keyPrefix, depth, 0, 0, <<>>)

\* The largest depth argument over all invocations of renderRichTextInternal
\* made while rendering s at the given depth (the invocation itself included).
RECURSIVE DepthLoop(_, _, _, _)
RECURSIVE DepthReached(_, _)
DepthLoop(s, depth, lastIndex, best) ==
    LET match == StyleExec(s, lastIndex)
    IN  IF match.found
        THEN LET d == DepthReached(match.rawContent, depth + 1)
             IN  DepthLoop(s, depth, match.index + Len(match.full),
                           IF d > best THEN d ELSE best)
        ELSE best

DepthReached(s, depth) ==
    IF Falsy(s) \/ DepthExceeded(depth) THEN depth
    ELSE DepthLoop(s, depth, 0, depth)

renderRichText(s) == renderRichTextInternal(s, "rt", 0)

\* The RichText component: null, or a fragment of the rendered nodes.
RichText(s) ==
    IF Falsy(s) THEN [kind |-> "null", children |-> <<>>]
    ELSE [kind |-> "fragment", children |-> renderRichText(s)]

(***************************************************************************)
(* The inputs: every concatenation of at most MaxPieces pieces of markup,  *)
(* and the nested forms  {{key: ... {{key: body }} ... }}  with up to      *)
(* MaxNest openers and closers around a body of at most MaxInner pieces,   *)
(* and every concatenation of at most MaxRuns whole bracket runs, plain    *)
(* characters, openers and closers.                                        *)
(***************************************************************************)
Opener(key) == <<"{", "{">> \o key \o <<":">>

Closer == <<"}", "}">>

KeyRed == <<"r","e","d">>
KeyBlue == <<"b","l","u","e">>
KeyA == <<"a">>
KeyConstructor == <<"c","o","n","s","t","r","u","c","t","o","r">>

Pieces ==
    { Opener(KeyRed), Opener(KeyBlue), Opener(KeyA), Opener(KeyConstructor),
      Closer, <<"}">>, <<LB>>, <<RB>>, <<"x">> }

InnerPieces == { <<"x">>, <<LB>>, <<RB>> }

RECURSIVE Concats(_, _)
Concats(P, n) ==
    IF n = 0 THEN { <<>> }
    ELSE LET shorter == Concats(P, n - 1)
         IN  shorter \cup { s \o p : s \in shorter, p \in P }

RECURSIVE Repeat(_, _)
Repeat(s, n) == IF n = 0 THEN <<>> ELSE s \o Repeat(s, n - 1)

Nest(n, key, body, m) == Repeat(Opener(key), n) \o body \o Repeat(Closer, m)

\* The closers number one fewer than, as many as, or one more than the openers.
NestedInputs ==
    UNION { { Nest(n, key, body, m) :
                key \in {KeyA, KeyRed},
                body \in Concats(InnerPieces, MaxInner),
                m \in { k \in 0..MaxNest : k - n \in {-1, 0, 1} } } :
            n \in 0..MaxNest }

RunPieces == { <<LB, "x", RB>>, <<"x">>, Opener(KeyA), Opener(KeyRed), Closer }

RunInputs == Concats(RunPieces, MaxRuns)

Inputs == Concats(Pieces, MaxPieces) \cup NestedInputs \cup RunInputs \cup {Absent}

(***************************************************************************)
(* The state machine: one call of renderRichText, or one render of the     *)
(* RichText component, on an input.                                        *)
(***************************************************************************)
Init ==
    /\ text \in Inputs
    /\ pc = "idle"
    /\ nodes = <<>>
    /\ maxDepth = -1
    /\ view = [kind |-> "none", children |-> <<>>]
    /\ stack = <<>>
    /\ OutsideRichTextIdle

\* A caller invokes renderRichText(text).
CallRenderRichText ==
    /\ pc = "idle"
    /\ nodes' = renderRichText(text)
    /\ maxDepth' = DepthReached(text, 0)
    /\ pc' = "returned"
    /\ UNCHANGED <<text, view, scanVars, outsideRichText>>

\* React renders <RichText text={text} />.
RenderRichText ==
    /\ pc = "idle"
    /\ view' = RichText(text)
    /\ maxDepth' = IF Falsy(text) THEN -1 ELSE DepthReached(text, 0)
    /\ pc' = "mounted"
    /\ UNCHANGED <<text, nodes, scanVars, outsideRichText>>

\* renderRichTextInternal hands a span of text to renderBracketHighlights
\* (the tail of a text without tokens is the whole text).
CallRenderBracketHighlights ==
    /\ pc = "idle"
    /\ text # Absent
    /\ nodes' = renderBracketHighlights(text, TailPrefix("rt"))
    /\ pc' = "highlighted"
    /\ UNCHANGED <<text, maxDepth, view, scanVars, outsideRichText>>

Next == CallRenderRichText \/ RenderRichText \/ CallRenderBracketHighlights

Spec == Init /\ [][Next]_vars

(***************************************************************************)
(* The same call of renderRichText, run one step at a time: an activation  *)
(* of renderRichTextInternal ("style") or of renderBracketHighlights       *)
(* ("bracket") holds its arguments, its regex object's lastIndex, the      *)
(* loop's own lastIndex and matchIndex, and its nodes array.  A step is    *)
(* one evaluation of a while condition with the body that follows it, up   *)
(* to the next call or return.                                             *)
(***************************************************************************)
ScanInputs ==
    Concats(RunPieces, MaxScan)
        \cup { Nest(n, KeyRed, <<LB, "x", RB>>, n) : n \in 1..MaxScan }
        \cup { Absent }

Top == stack[Len(stack)]

Below(k) == SubSeq(stack, 1, Len(stack) - k)

\* A fresh activation of renderRichTextInternal: a new regex object has
\* lastIndex 0.
StyleFrame(s, keyPrefix, depth) ==
    [fn |-> "style", at |-> "entry", s |-> s, keyPrefix |-> keyPrefix,
     depth |-> depth, regexLastIndex |-> 0, lastIndex |-> 0, matchIndex |-> 0,
     nodes |-> <<>>, match |-> NoMatch]

\* A fresh activation of renderBracketHighlights.
BracketFrame(s, keyPrefix, depth) ==
    [fn |-> "bracket", at |-> "exec", s |-> s, keyPrefix |-> keyPrefix,
     depth |-> depth, regexLastIndex |-> 0, lastIndex |-> 0, matchIndex |-> 0,
     nodes |-> <<>>, match |-> NoMatch]

InitScan ==
    /\ text \in ScanInputs
    /\ pc = "idle"
    /\ nodes = <<>>
    /\ maxDepth = -1
    /\ view = [kind |-> "none", children |-> <<>>]
    /\ stack = <<>>
    /\ OutsideRichTextIdle

\* renderRichText(text) calls renderRichTextInternal(text, 'rt', 0).
ScanCall ==
    /\ pc = "idle"
    /\ stack' = <<StyleFrame(text, "rt", 0)>>
    /\ maxDepth' = 0
    /\ pc' = "running"
    /\ UNCHANGED <<text, nodes, view, outsideRichText>>

\* The two guards at the top of renderRichTextInternal.
StyleEnter ==
    /\ pc = "running" /\ Top.fn = "style" /\ Top.at = "entry"
    /\ stack' = Below(1) \o
          <<IF Falsy(Top.s) THEN [Top EXCEPT !.at = "return"]
            ELSE IF DepthExceeded(Top.depth)
                 THEN [Top EXCEPT !.at = "return", !.nodes = <<TextNode(Top.s)>>]
            ELSE [Top EXCEPT !.at = "exec"]>>
    /\ UNCHANGED <<text, pc, nodes, maxDepth, view, outsideRichText>>

\* styleTokenRegex.exec(text) and the loop body up to the next call, or the
\* code after the loop.
StyleExecStep ==
    /\ pc = "running" /\ Top.fn = "style" /\ Top.at = "exec"
    /\ LET f == Top
           m == StyleExec(f.s, f.regexLastIndex)
       IN  IF m.found
           THEN LET g == [f EXCEPT !.regexLastIndex = RegexAdvance(m), !.match = m]
                IN  IF m.index > f.lastIndex
                    THEN /\ stack' = Below(1) \o
                               <<[g EXCEPT !.at = "gap"],
                                 BracketFrame(Slice(f.s, f.lastIndex, m.index),
                                              GapPrefix(f.keyPrefix, f.matchIndex), f.depth)>>
                         /\ UNCHANGED maxDepth
                    ELSE /\ stack' = Below(1) \o
                               <<[g EXCEPT !.at = "children"],
                                 StyleFrame(m.rawContent,
                                            ContentPrefix(f.keyPrefix, f.matchIndex),
                                            f.depth + 1)>>
                         /\ maxDepth' = IF f.depth + 1 > maxDepth THEN f.depth + 1 ELSE maxDepth
           ELSE /\ UNCHANGED maxDepth
                /\ IF f.lastIndex < Len(f.s)
                   THEN stack' = Below(1) \o
                            <<[f EXCEPT !.at = "tail", !.regexLastIndex = 0],
                              BracketFrame(SliceFrom(f.s, f.lastIndex),
                                           TailPrefix(f.keyPrefix), f.depth)>>
                   ELSE stack' = Below(1) \o
                            <<[f EXCEPT !.at = "return", !.regexLastIndex = 0]>>
    /\ UNCHANGED <<text, pc, nodes, view, outsideRichText>>

\* bracketHighlightRegex.exec(text) and the loop body, or the code after
\* the loop.
BracketExecStep ==
    /\ pc = "running" /\ Top.fn = "bracket" /\ Top.at = "exec"
    /\ LET f == Top
           m == BracketExec(f.s, f.regexLastIndex)
       IN  IF m.found
           THEN LET gap == IF m.index > f.lastIndex
                           THEN <<TextNode(Slice(f.s, f.lastIndex, m.index))>>
                           ELSE <<>>
                    mark == Span(MarkKey(f.keyPrefix, f.matchIndex), MarkClass,
                                 <<TextNode(m.full)>>)
                IN  stack' = Below(1) \o
                        <<[f EXCEPT !.regexLastIndex = RegexAdvance(m),
                                    !.nodes = @ \o gap \o <<mark>>,
                                    !.lastIndex = m.index + Len(m.full),
                                    !.matchIndex = @ + 1]>>
           ELSE stack' = Below(1) \o
                    <<[f EXCEPT !.at = "return", !.regexLastIndex = 0,
                                !.nodes = IF f.lastIndex < Len(f.s)
                                          THEN @ \o <<TextNode(SliceFrom(f.s, f.lastIndex))>>
                                          ELSE @]>>
    /\ UNCHANGED <<text, pc, nodes, maxDepth, view, outsideRichText>>

\* A callee returns into the activation of renderRichTextInternal below
\* it, which runs on to its next call, loop test or return.
Resume ==
    /\ pc = "running" /\ Len(stack) >= 2 /\ Top.at = "return"
    /\ LET v == Top.nodes
           f == stack[Len(stack) - 1]
       IN  CASE f.at = "gap" ->
                  /\ stack' = Below(2) \o
                        <<[f EXCEPT !.nodes = @ \o v, !.at = "children"],
                          StyleFrame(f.match.rawContent,
                                     ContentPrefix(f.keyPrefix, f.matchIndex),
                                     f.depth + 1)>>
                  /\ maxDepth' = IF f.depth + 1 > maxDepth THEN f.depth + 1 ELSE maxDepth
             [] f.at = "children" ->
                  /\ stack' = Below(2) \o
                        <<[f EXCEPT !.nodes = @ \o TokenNodes(Trim(f.match.rawStyleKey),
                                                             f.keyPrefix, f.matchIndex, v),
                                    !.lastIndex = f.match.index + Len(f.match.full),
                                    !.matchIndex = @ + 1,
                                    !.at = "exec"]>>
                  /\ UNCHANGED maxDepth
             [] f.at = "tail" ->
                  /\ stack' = Below(2) \o <<[f EXCEPT !.nodes = @ \o v, !.at = "return"]>>
                  /\ UNCHANGED maxDepth
    /\ UNCHANGED <<text, pc, nodes, view, outsideRichText>>

\* renderRichTextInternal(text, 'rt', 0) returns to renderRichText, which
\* returns its array.
ScanReturn ==
    /\ pc = "running" /\ Len(stack) = 1 /\ Top.at = "return"
    /\ nodes' = Top.nodes
    /\ stack' = <<>>
    /\ pc' = "returned"
    /\ UNCHANGED <<text, maxDepth, view, outsideRichText>>

NextScan ==
    ScanCall \/ StyleEnter \/ StyleExecStep \/ BracketExecStep \/ Resume \/ ScanReturn

\* A call that has started runs to completion: nothing else runs on the
\* thread in between.
SpecScan == InitScan /\ [][NextScan]_vars /\ WF_vars(NextScan)

(***************************************************************************)
(* The content hooks: useContentIndex, useMarkdownContent,                 *)
(* useUndergradSummary and useUndergradTimeline.  One mounted instance of  *)
(* one hook: its three state cells, its argument, and the calls of its     *)
(* async load function that have been started, each awaiting the fetch,    *)
(* awaiting the body (response.json() or response.text()), or finished.    *)
(***************************************************************************)
Hooks == { "useContentIndex", "useMarkdownContent", "useUndergradSummary",
           "useUndergradTimeline" }

\* The argument values of useMarkdownContent: the empty string and two files.
FilePaths == { "", "a.md", "b.md" }

\* The URL a load fetches.
Url(h, path) ==
    CASE h = "useContentIndex" -> "/content/index.json"
      [] h = "useMarkdownContent" -> "/content/" \o path
      [] h = "useUndergradSummary" -> "/content/undergrad/requirements/summary.json"
      [] h = "useUndergradTimeline" -> "/content/undergrad/projects/timeline.json"

\* What the static file behind a URL holds (parsed, for the JSON hooks).
Fetched(url) == "body of " \o url

\* The message of the Error thrown for a response that is not ok.
NotOkMessage(h, path) ==
    CASE h = "useContentIndex" -> "Failed to load content index"
      [] h = "useMarkdownContent" -> "Failed to load content: " \o path
      [] h = "useUndergradSummary" -> "Failed to load undergrad summary"
      [] h = "useUndergradTimeline" -> "Failed to load undergrad timeline"

\* The values a rejected fetch or body promise may throw: an Error, or
\* something that is not an Error.
Thrown == { [isError |-> TRUE, message |-> "Failed to fetch"], [isError |-> FALSE] }

\* err instanceof Error ? err.message : 'Unknown error'
ErrorMessage(err) == IF err.isError THEN err.message ELSE "Unknown error"

\* Whether the effect calls the load function: always, but in
\* useMarkdownContent only `if (filePath)`.
ShouldLoad(h, path) == h # "useMarkdownContent" \/ path # ""

\* A started call of the load function, up to its first await.
Load(path) == [path |-> path, stage |-> "fetch", outcome |-> "pending"]

\* The first render of a component that uses the hook: the useState
\* initial values; the effect is due.
InitHooks ==
    /\ OutsideHooksIdle
    /\ hook \in Hooks
    /\ filePath \in (IF hook = "useMarkdownContent" THEN FilePaths ELSE {""})
    /\ data = (IF hook = "useMarkdownContent" THEN "" ELSE Null)
    /\ loading = TRUE
    /\ error = Null
    /\ loads = <<>>
    /\ effectDue = TRUE
    /\ changes = 0

\* Mutant: the effect runs a second time after the first render, so a hook
\* without an argument starts two loads.
RunEffect_Twice ==
    /\ effectDue
    /\ effectDue' = (changes = 0 /\ loads = <<>>)
    /\ IF ShouldLoad(hook, filePath)
       THEN /\ loading' = TRUE
            /\ loads' = Append(loads, Load(filePath))
       ELSE UNCHANGED <<loading, loads>>
    /\ UNCHANGED <<hook, filePath, data, error, changes, outsideHooks>>

\* React runs the effect: after the first render, and after a render in
\* which filePath differs from the previous one.  The load function runs
\* up to its first await: setLoading(true) and the fetch is started.
RunEffect ==
    /\ effectDue
    /\ effectDue' = FALSE
    /\ IF ShouldLoad(hook, filePath)
       THEN /\ loading' = TRUE
            /\ loads' = Append(loads, Load(filePath))
       ELSE UNCHANGED <<loading, loads>>
    /\ UNCHANGED <<hook, filePath, data, error, changes, outsideHooks>>

\* The parent renders useMarkdownContent with another filePath.
ChangeFilePath ==
    /\ hook = "useMarkdownContent"
    /\ ~effectDue
    /\ changes < MaxChanges
    /\ \E p \in FilePaths \ {filePath} :
          filePath' = p
    /\ effectDue' = TRUE
    /\ changes' = changes + 1
    /\ UNCHANGED <<hook, data, loading, error, loads, outsideHooks>>

\* The catch block, then the finally block, of load number i.
Failed(i, message) ==
    /\ error' = message
    /\ loading' = FALSE
    /\ loads' = [loads EXCEPT ![i].stage = "done", ![i].outcome = "failed"]
    /\ UNCHANGED data

\* The fetch of load number i settles: with an ok response (the body is
\* awaited next), with a response that is not ok, or with a rejection.
FetchSettles ==
    \E i \in 1..Len(loads) :
        /\ loads[i].stage = "fetch"
        /\ \/ /\ loads' = [loads EXCEPT ![i].stage = "body"]
              /\ UNCHANGED <<data, loading, error>>
           \/ Failed(i, NotOkMessage(hook, loads[i].path))
           \/ \E err \in Thrown : Failed(i, ErrorMessage(err))
        /\ UNCHANGED <<hook, filePath, effectDue, changes, outsideHooks>>

\* response.json() / response.text() of load number i settles: the state
\* cell is set and then the finally block runs, or the catch block runs.
BodySettles ==
    \E i \in 1..Len(loads) :
        /\ loads[i].stage = "body"
        /\ \/ /\ data' = Fetched(Url(hook, loads[i].path))
              /\ loading' = FALSE
              /\ loads' = [loads EXCEPT ![i].stage = "done", ![i].outcome = "ok"]
              /\ UNCHANGED error
           \/ \E err \in Thrown : Failed(i, ErrorMessage(err))
        /\ UNCHANGED <<hook, filePath, effectDue, changes, outsideHooks>>

NextHooks == RunEffect \/ ChangeFilePath \/ FetchSettles \/ BodySettles

SpecHooks == InitHooks /\ [][NextHooks]_vars

(***************************************************************************)
(* The Undergrad page: it calls useContentIndex, useUndergradSummary and   *)
(* useUndergradTimeline, and returns the loading screen, the error screen  *)
(* or the tabs.  Each hook has its three state cells and the stage of its  *)
(* one load: "effect" (not started), "fetch", "body" or "done".            *)
(***************************************************************************)
\* A string or null used as a condition.
TruthyError(e) == e # Null /\ e # ""

\* Mutant: the page tests the errors before the loading flags.
Undergrad_ErrorFirst(c) ==
    LET indexError == c["useContentIndex"].error
        summaryError == c["useUndergradSummary"].error
        timelineError == c["useUndergradTimeline"].error
    IN  IF TruthyError(indexError) \/ TruthyError(summaryError) \/ TruthyError(timelineError)
        THEN [kind |-> "error",
              message |-> IF TruthyError(indexError) THEN indexError
                          ELSE IF TruthyError(summaryError) THEN summaryError
                          ELSE timelineError]
        ELSE IF \/ c["useContentIndex"].loading
                \/ c["useUndergradSummary"].loading
                \/ c["useUndergradTimeline"].loading
        THEN [kind |-> "loading", message |-> Null]
        ELSE [kind |-> "tabs", message |-> Null]

\* What the component returns for the values its hooks return.
Undergrad(c) ==
    LET indexError == c["useContentIndex"].error
        summaryError == c["useUndergradSummary"].error
        timelineError == c["useUndergradTimeline"].error
    IN  IF \/ c["useContentIndex"].loading
           \/ c["useUndergradSummary"].loading
           \/ c["useUndergradTimeline"].loading
        THEN [kind |-> "loading", message |-> Null]
        ELSE IF TruthyError(indexError) \/ TruthyError(summaryError) \/ TruthyError(timelineError)
        THEN [kind |-> "error",
              message |-> IF TruthyError(indexError) THEN indexError
                          ELSE IF TruthyError(summaryError) THEN summaryError
                          ELSE timelineError]
        ELSE [kind |-> "tabs", message |-> Null]

\* The first render: the useState initial values of the three hooks.
InitPage ==
    /\ OutsidePageIdle
    /\ cells = [h \in PageHooks |->
                  [data |-> Null, loading |-> TRUE, error |-> Null, stage |-> "effect"]]
    /\ screen = Undergrad(cells)

\* After the first render React runs the effects of the three hooks: each
\* load function runs up to its first await, then the page renders again.
PageRunEffects ==
    /\ \A h \in PageHooks : cells[h].stage = "effect"
    /\ cells' = [h \in PageHooks |-> [cells[h] EXCEPT !.loading = TRUE, !.stage = "fetch"]]
    /\ screen' = Undergrad(cells')
    /\ UNCHANGED outsidePage

\* The catch block, then the finally block, of the load of hook h.
PageFailed(h, message) ==
    cells' = [cells EXCEPT ![h].error = message, ![h].loading = FALSE, ![h].stage = "done"]

\* The fetch of one hook settles, and the page renders again.
PageFetchSettles ==
    \E h \in PageHooks :
        /\ cells[h].stage = "fetch"
        /\ \/ cells' = [cells EXCEPT ![h].stage = "body"]
           \/ PageFailed(h, NotOkMessage(h, ""))
           \/ \E err \in Thrown : PageFailed(h, ErrorMessage(err))
        /\ screen' = Undergrad(cells')
        /\ UNCHANGED outsidePage

\* response.json() of one hook settles, and the page renders again.
PageBodySettles ==
    \E h \in PageHooks :
        /\ cells[h].stage = "body"
        /\ \/ cells' = [cells EXCEPT ![h].data = Fetched(Url(h, "")),
                                     ![h].loading = FALSE, ![h].stage = "done"]
           \/ \E err \in Thrown : PageFailed(h, ErrorMessage(err))
        /\ screen' = Undergrad(cells')
        /\ UNCHANGED outsidePage

NextPage == PageRunEffects \/ PageFetchSettles \/ PageBodySettles

SpecPage == InitPage /\ [][NextPage]_vars

(***************************************************************************)
(* The ScaledImage lightbox.  Each instance has the state isOpen; while it *)
(* is open its overflow effect has captured document.body.style.overflow   *)
(* in originalOverflow and set the style to 'hidden', and the cleanup of   *)
(* that effect writes the captured value back.  Instances are numbered in  *)
(* tree order, which is the order in which React runs the cleanups of one  *)
(* commit.  A click or key press is a discrete event: the state update,    *)
(* the render and the effects it causes are one step.                      *)
(***************************************************************************)
Images == 1..MaxImages

\* The values document.body.style.overflow may have before any lightbox.
OverflowValues == { "", "auto", "scroll" }

NotCaptured == "none"

OpenImages == { i \in Images : isOpen[i] }

\* The effect of lines 119-126 after isOpen became true in instance i.
OpenLightbox(i) ==
    /\ isOpen' = [isOpen EXCEPT ![i] = TRUE]
    /\ originalOverflow' = [originalOverflow EXCEPT ![i] = bodyOverflow]
    /\ bodyOverflow' = "hidden"

\* The style after the cleanups of the instances in S have run in tree order
\* from the style now: each writes the value it captured, the last one wins.
RECURSIVE AfterCleanups(_, _)
AfterCleanups(S, now) ==
    IF S = {} THEN now
    ELSE LET i == CHOOSE x \in S : \A y \in S : x <= y
         IN  AfterCleanups(S \ {i}, originalOverflow[i])

\* isOpen became false in the instances in S (or they unmount): their
\* cleanups run.
CloseLightboxes(S) ==
    /\ isOpen' = [i \in Images |-> isOpen[i] /\ i \notin S]
    /\ originalOverflow' = [i \in Images |-> IF i \in S THEN NotCaptured
                                             ELSE originalOverflow[i]]
    /\ bodyOverflow' = AfterCleanups(S, bodyOverflow)

InitImages ==
    /\ OutsideImagesIdle
    /\ imagesMounted = TRUE
    /\ isOpen = [i \in Images |-> FALSE]
    /\ originalOverflow = [i \in Images |-> NotCaptured]
    /\ initialOverflow \in OverflowValues
    /\ bodyOverflow = initialOverflow

\* The thumbnail button of an instance is activated (by a click, or by the
\* keyboard while another lightbox is open: focus is not kept inside it).
ThumbnailClick ==
    /\ imagesMounted
    /\ \E i \in Images : ~isOpen[i] /\ OpenLightbox(i)
    /\ UNCHANGED <<imagesMounted, initialOverflow, outsideImages>>

\* A click on the backdrop: it reaches the dialog that is on top, the one
\* latest in the document.
BackdropClick ==
    /\ imagesMounted
    /\ OpenImages # {}
    /\ CloseLightboxes({ CHOOSE i \in OpenImages : \A j \in OpenImages : j <= i })
    /\ UNCHANGED <<imagesMounted, initialOverflow, outsideImages>>

\* The close button of an open lightbox is activated.
CloseButtonClick ==
    /\ imagesMounted
    /\ \E i \in OpenImages : CloseLightboxes({i})
    /\ UNCHANGED <<imagesMounted, initialOverflow, outsideImages>>

\* Escape is pressed: the keydown listener of every open instance calls
\* setIsOpen(false), and the updates are one commit.
EscapeKey ==
    /\ imagesMounted
    /\ OpenImages # {}
    /\ CloseLightboxes(OpenImages)
    /\ UNCHANGED <<imagesMounted, initialOverflow, outsideImages>>

\* The instances unmount: the cleanups of the open ones run.
UnmountImages ==
    /\ imagesMounted
    /\ imagesMounted' = FALSE
    /\ CloseLightboxes(OpenImages)
    /\ UNCHANGED <<initialOverflow, outsideImages>>

NextImages ==
    ThumbnailClick \/ BackdropClick \/ CloseButtonClick \/ EscapeKey \/ UnmountImages

SpecImages == InitImages /\ [][NextImages]_vars

(***************************************************************************)
(* getLatestAnnouncements(announcements, limit = 3).  An announcement is a *)
(* record with a title and a date string; the array is a sequence.         *)
(***************************************************************************)
DefaultLimit == 3

Dates == { "2024-01-01", "2024-01-02", "2024-01-03" }

\* new Date(date).getTime(), in days from the first of the dates.
GetTime(date) ==
    CASE date = "2024-01-01" -> 0
      [] date = "2024-01-02" -> 1
      [] date = "2024-01-03" -> 2

\* The comparator: a negative result puts a before b.
CompareByDate(a, b) == GetTime(b.date) - GetTime(a.date)

\* Array.prototype.sort with the comparator: a stable sort.  x is put into
\* the sorted sequence after every element it does not have to precede.
RECURSIVE InsertSorted(_, _)
InsertSorted(sorted, x) ==
    IF sorted = <<>> THEN <<x>>
    ELSE IF CompareByDate(x, Head(sorted)) < 0 THEN <<x>> \o sorted
    ELSE <<Head(sorted)>> \o InsertSorted(Tail(sorted), x)

RECURSIVE SortFrom(_, _)
SortFrom(arr, sorted) ==
    IF arr = <<>> THEN sorted ELSE SortFrom(Tail(arr), InsertSorted(sorted, Head(arr)))

SortByDate(arr) == SortFrom(arr, <<>>)

\* arr.slice(0, end): a negative end counts from the end of the array.
SliceTo(arr, end) ==
    LET stop == IF end < 0
                THEN (IF Len(arr) + end < 0 THEN 0 ELSE Len(arr) + end)
                ELSE (IF end > Len(arr) THEN Len(arr) ELSE end)
    IN  SubSeq(arr, 1, stop)

\* The parameter default.
EffectiveLimit(l) == IF l = NoLimit THEN DefaultLimit ELSE l[1]

\* The arrays a caller may pass: up to MaxAnnouncements announcements.
AnnouncementArrays ==
    UNION { { [i \in 1..n |-> [title |-> ToString(i), date |-> d[i]]] :
                d \in [1..n -> Dates] } : n \in 0..MaxAnnouncements }

Limits == { NoLimit } \cup { <<n>> : n \in -1..(MaxAnnouncements + 1) }

InitAnnouncements ==
    /\ OutsideAnnouncementsIdle
    /\ announcements \in AnnouncementArrays
    /\ limit \in Limits
    /\ passed = announcements
    /\ latest = <<>>
    /\ called = FALSE

\* The call: sort() sorts the array it is called on and returns that same
\* array; slice() copies from it.
CallGetLatestAnnouncements ==
    /\ ~called
    /\ announcements' = SortByDate(announcements)
    /\ latest' = SliceTo(announcements', EffectiveLimit(limit))
    /\ called' = TRUE
    /\ UNCHANGED <<limit, passed, outsideAnnouncements>>

NextAnnouncements == CallGetLatestAnnouncements

SpecAnnouncements == InitAnnouncements /\ [][NextAnnouncements]_vars

(***************************************************************************)
(* Vocabulary of the properties: the text and shape of a node list, and    *)
(* the markup grammar stated over offsets of the input.                    *)
(***************************************************************************)
\* The concatenated text of a node list, style wrappers ignored.
RECURSIVE FlattenNodes(_)
FlattenNodes(ns) ==
    IF ns = <<>> THEN <<>>
    ELSE LET n == Head(ns)
         IN  (IF n.type = "text" THEN n.value ELSE FlattenNodes(n.children))
             \o FlattenNodes(Tail(ns))

\* A node list without its React keys: kinds, classes, text and nesting.
RECURSIVE Shape(_)
Shape(ns) ==
    IF ns = <<>> THEN <<>>
    ELSE LET n == Head(ns)
         IN  <<IF n.type = "text" THEN n
               ELSE [type |-> "span", className |-> n.className,
                     children |-> Shape(n.children)]>>
             \o Shape(Tail(ns))

StyledShape(className, children) ==
    [type |-> "span", className |-> className, children |-> children]

IsString(s) == s # Absent

\* "{{" key ":" starts at offset i and its ":" is at offset e.
OpenerAt(s, i, e) ==
    /\ 0 <= i /\ i + 2 < e /\ e < Len(s)
    /\ CharAt(s, i) = "{" /\ CharAt(s, i + 1) = "{"
    /\ \A k \in (i + 2)..(e - 1) : CharAt(s, k) \in KeyChars
    /\ CharAt(s, e) = ":"

\* "}}" starts at offset c.
CloseAt(s, c) == 0 <= c /\ c + 1 < Len(s) /\ CharAt(s, c) = "}" /\ CharAt(s, c + 1) = "}"

Offsets(s) == 0..(Len(s) - 1)

MinOf(S) == CHOOSE x \in S : \A y \in S : x <= y

\* Offsets c >= p where a "}}" starts.
ClosesFrom(s, p) == { c \in Offsets(s) : c >= p /\ CloseAt(s, c) }

\* A style token of the grammar starts at offset i: an opener whose content
\* is followed by some "}}".
TokenStartsAt(s, i) ==
    /\ i \in Offsets(s) /\ CharAt(s, i) = "{"
    /\ \E e \in Offsets(s) : OpenerAt(s, i, e) /\ ClosesFrom(s, e + 1) # {}

ColonOf(s, i) == CHOOSE e \in Offsets(s) : OpenerAt(s, i, e)

\* The offsets of s that belong to the delimiters of the style tokens found
\* by a left-to-right scan from offset p, each token ending at the first
\* "}}" after its opener.
RECURSIVE DelimiterOffsets(_, _)
DelimiterOffsets(s, p) ==
    LET starts == { i \in Offsets(s) : i >= p /\ TokenStartsAt(s, i) }
    IN  IF starts = {} THEN {}
        ELSE LET i == MinOf(starts)
                 e == ColonOf(s, i)
                 c == MinOf(ClosesFrom(s, e + 1))
             IN  (i..e) \cup {c, c + 1} \cup DelimiterOffsets(s, c + 2)

\* The subsequence of s at the offsets not in D.
RECURSIVE WithoutOffsets(_, _, _)
WithoutOffsets(s, D, i) ==
    IF i >= Len(s) THEN <<>>
    ELSE (IF i \in D THEN <<>> ELSE <<CharAt(s, i)>>) \o WithoutOffsets(s, D, i + 1)

\* s with the delimiters of its first-close-matched style tokens removed.
StripMatchedDelimiters(s) == WithoutOffsets(s, DelimiterOffsets(s, 0), 0)

\* Nested grammar: openers and closers pair up like parentheses and no
\* brace stands outside an opener or closer.
RECURSIVE BracesBalanced(_, _, _)
BracesBalanced(s, i, open) ==
    IF i >= Len(s) THEN open = 0
    ELSE IF \E e \in Offsets(s) : OpenerAt(s, i, e)
         THEN BracesBalanced(s, ColonOf(s, i) + 1, open + 1)
    ELSE IF CloseAt(s, i) THEN open > 0 /\ BracesBalanced(s, i + 2, open - 1)
    ELSE CharAt(s, i) \notin {"{", "}"} /\ BracesBalanced(s, i + 1, open)

\* Every LB opens a run that is closed, and no RB stands outside a run.
RECURSIVE BracketsTerminated(_, _)
BracketsTerminated(s, i) ==
    IF i >= Len(s) THEN TRUE
    ELSE IF CharAt(s, i) = RB THEN FALSE
    ELSE IF CharAt(s, i) = LB
         THEN LET ends == { j \in Offsets(s) : j > i /\ CharAt(s, j) = RB }
              IN  ends # {} /\ MinOf(ends) > i + 1 /\ BracketsTerminated(s, MinOf(ends) + 1)
    ELSE BracketsTerminated(s, i + 1)

WellFormed(s) == BracesBalanced(s, 0, 0) /\ BracketsTerminated(s, 0)

\* s with every opener "{{key:" and every closer "}}" removed (nested grammar).
RECURSIVE WithoutAllDelimiters(_, _)
WithoutAllDelimiters(s, i) ==
    IF i >= Len(s) THEN <<>>
    ELSE IF \E e \in Offsets(s) : OpenerAt(s, i, e)
         THEN WithoutAllDelimiters(s, ColonOf(s, i) + 1)
    ELSE IF CloseAt(s, i) THEN WithoutAllDelimiters(s, i + 2)
    ELSE <<CharAt(s, i)>> \o WithoutAllDelimiters(s, i + 1)

\* Offsets i of an LB that opens a bracket run: the first RB after it exists
\* and is not the next character.
RunStarts(s) ==
    { i \in Offsets(s) :
        /\ CharAt(s, i) = LB
        /\ \E j \in Offsets(s) :
              /\ j > i + 1 /\ CharAt(s, j) = RB
              /\ \A k \in (i + 1)..(j - 1) : CharAt(s, k) # RB }

\* The offset of the RB that closes the run opened at offset i.
RunEnd(s, i) == MinOf({ j \in Offsets(s) : j > i /\ CharAt(s, j) = RB })

\* The offsets of the two glyphs of each bracket run found by a
\* left-to-right scan from offset p.
RECURSIVE GlyphOffsets(_, _)
GlyphOffsets(s, p) ==
    LET starts == { i \in RunStarts(s) : i >= p }
    IN  IF starts = {} THEN {}
        ELSE LET i == MinOf(starts)
             IN  {i, RunEnd(s, i)} \cup GlyphOffsets(s, RunEnd(s, i) + 1)

Contains(s, ch) == \E k \in Offsets(s) : CharAt(s, k) = ch

HasDoubleOpen(s) == \E k \in Offsets(s) : k + 1 < Len(s) /\ CharAt(s, k) = "{" /\ CharAt(s, k + 1) = "{"

(***************************************************************************)
(* C1.  For every well-formed input (tokens and bracket runs terminated,   *)
(* tokens possibly nested in token content) the concatenated text of the   *)
(* returned nodes is the input with every "{{key:" and "}}" removed and    *)
(* the bracket glyphs kept.                                                *)
(***************************************************************************)
C1_WellFormedReconstructs ==
    (pc = "returned" /\ IsString(text) /\ WellFormed(text))
        => FlattenNodes(nodes) = WithoutAllDelimiters(text, 0)

(***************************************************************************)
(* C2.  Original: the concatenated text of the returned nodes is the input *)
(* with the token delimiters "{{key:", "}}" and both bracket glyphs        *)
(* removed.                                                                *)
(***************************************************************************)
C2_TextWithoutDelimitersAndGlyphs ==
    (pc = "returned" /\ IsString(text))
        => FlattenNodes(nodes) =
               WithoutOffsets(text, DelimiterOffsets(text, 0) \cup GlyphOffsets(text, 0), 0)

(***************************************************************************)
(* C2, amended.  The concatenated text of the returned nodes is the input  *)
(* with only the delimiters of the matched style tokens removed ("{{key:"  *)
(* and the first "}}" after it); the bracket glyphs and every other        *)
(* character are kept, once each and in order.                             *)
(***************************************************************************)
C2_TextKeepsAllButMatchedDelimiters ==
    (pc = "returned" /\ IsString(text))
        => FlattenNodes(nodes) = StripMatchedDelimiters(text)

C2_Witness ==
    /\ pc = "returned"
    /\ text = Nest(2, KeyRed, <<LB, "x", RB>>, 2)
    /\ FlattenNodes(nodes) = Opener(KeyRed) \o <<LB, "x", RB>> \o Closer

(***************************************************************************)
(* C3.  Original: for every string with no "{{", no LB and no RB,          *)
(* renderRichText returns exactly one node, the plain text itself.         *)
(***************************************************************************)
C3_PlainStringOneNode ==
    (pc = "returned" /\ IsString(text)
        /\ ~HasDoubleOpen(text) /\ ~Contains(text, LB) /\ ~Contains(text, RB))
        => nodes = <<TextNode(text)>>

(***************************************************************************)
(* C3, amended.  For every non-empty string with no "{{", no LB and no RB, *)
(* renderRichText returns exactly one node, the plain text itself.         *)
(***************************************************************************)
C3_NonEmptyPlainStringOneNode ==
    (pc = "returned" /\ IsString(text) /\ text # <<>>
        /\ ~HasDoubleOpen(text) /\ ~Contains(text, LB) /\ ~Contains(text, RB))
        => nodes = <<TextNode(text)>>

C3_Witness ==
    /\ pc = "returned"
    /\ text = <<"x", "}", "}", "x">>
    /\ nodes = <<TextNode(text)>>

(***************************************************************************)
(* C4.  For the empty string and for an absent text, renderRichText        *)
(* returns the empty node list and the RichText component renders nothing. *)
(***************************************************************************)
C4_EmptyAndAbsentRenderNothing ==
    /\ (pc = "returned" /\ text \in {<<>>, Absent}) => nodes = <<>>
    /\ (pc = "mounted" /\ text \in {<<>>, Absent}) => view.kind = "null"
    /\ (pc = "mounted" /\ text \notin {<<>>, Absent}) => view.kind = "fragment"

C4_Witness ==
    /\ pc = "mounted"
    /\ text = Absent
    /\ view.kind = "null"

(***************************************************************************)
(* The first style token of an input: the token that starts at the first   *)
(* "{" of the input, when one starts there.                                *)
(***************************************************************************)
FirstBrace(s) == MinOf({ i \in Offsets(s) : CharAt(s, i) = "{" })

HasLeadingToken(s) == IsString(s) /\ Contains(s, "{") /\ TokenStartsAt(s, FirstBrace(s))

TokenClose(s) == MinOf(ClosesFrom(s, ColonOf(s, FirstBrace(s)) + 1))

TokenPre(s) == Slice(s, 0, FirstBrace(s))

TokenKey(s) == Slice(s, FirstBrace(s) + 2, ColonOf(s, FirstBrace(s)))

TokenContent(s) == Slice(s, ColonOf(s, FirstBrace(s)) + 1, TokenClose(s))

TokenPost(s) == SliceFrom(s, TokenClose(s) + 2)

RegisteredKeys == DOMAIN RICH_TEXT_STYLES

(***************************************************************************)
(* C5.  A style token whose key is registered gives exactly one styled     *)
(* node, whose class is the table's value for the key and whose children   *)
(* are the interpretation of the token's content; the text before and      *)
(* after the token is interpreted on its own.                              *)
(***************************************************************************)
C5_RegisteredKeyOneStyledNode ==
    (pc = "returned" /\ HasLeadingToken(text) /\ TokenKey(text) \in RegisteredKeys)
        => Shape(nodes) =
               Shape(renderRichText(TokenPre(text)))
               \o <<StyledShape(RICH_TEXT_STYLES[TokenKey(text)],
                                Shape(renderRichText(TokenContent(text))))>>
               \o Shape(renderRichText(TokenPost(text)))

C5_Witness ==
    /\ pc = "returned"
    /\ text = Opener(KeyBlue) \o <<"x", "x">> \o Closer
    /\ Shape(nodes) = <<StyledShape("text-blue-600 font-semibold", <<TextNode(<<"x", "x">>)>>)>>

(***************************************************************************)
(* C6.  A style token whose key matches the key pattern but is not         *)
(* registered gives no styled wrapper: the interpretation of its content   *)
(* stands directly in its place.                                           *)
(***************************************************************************)
C6_UnregisteredKeyNoWrapper ==
    (pc = "returned" /\ HasLeadingToken(text) /\ TokenKey(text) \notin RegisteredKeys)
        => Shape(nodes) =
               Shape(renderRichText(TokenPre(text)))
               \o Shape(renderRichText(TokenContent(text)))
               \o Shape(renderRichText(TokenPost(text)))

(***************************************************************************)
(* C7.  A style token whose content is itself a complete style token       *)
(* renders as a styled node whose only child is the styled node of the     *)
(* inner token, with no delimiter left in the text.                        *)
(***************************************************************************)
PlainBodies == Concats({<<"x">>}, MaxInner) \ { <<>> }

C7_NestedTokenIsStyledChild ==
    \A k1 \in {KeyRed, KeyBlue}, k2 \in {KeyRed, KeyBlue}, body \in PlainBodies :
        (pc = "returned" /\ text = Opener(k1) \o Opener(k2) \o body \o Closer \o Closer)
            => Shape(nodes) =
                   <<StyledShape(RICH_TEXT_STYLES[k1],
                        <<StyledShape(RICH_TEXT_STYLES[k2], <<TextNode(body)>>)>>)>>

RECURSIVE MarkFlags(_, _)
MarkFlags(ns, inMark) ==
    IF ns = <<>> THEN <<>>
    ELSE LET n == Head(ns)
         IN  (IF n.type = "text" THEN [k \in 1..Len(n.value) |-> inMark]
              ELSE MarkFlags(n.children, inMark \/ n.className = MarkClass))
             \o MarkFlags(Tail(ns), inMark)

\* The place in the output text of the input character at offset k, given
\* the set D of offsets that are removed.
OutputPlace(D, k) == Cardinality((0..k) \ D)

Marked(flags, D, k) == OutputPlace(D, k) <= Len(flags) /\ flags[OutputPlace(D, k)]

(***************************************************************************)
(* C9.  Original: every bracket run of the input (an LB, one or more       *)
(* characters other than RB, the first RB) has its text inside a mark      *)
(* node, wherever the run sits relative to style tokens.                   *)
(***************************************************************************)
C9_EveryBracketRunMarked ==
    (pc = "returned" /\ IsString(text))
        => LET D == DelimiterOffsets(text, 0)
               flags == MarkFlags(nodes, FALSE)
           IN  \A i \in RunStarts(text) :
                   \A k \in (i..RunEnd(text, i)) \ D : Marked(flags, D, k)

(***************************************************************************)
(* C9, amended.  Every bracket run that lies within one text span (it      *)
(* contains no character of a matched style token's delimiters) has its    *)
(* text inside a mark node; a run that straddles a token delimiter is not  *)
(* highlighted as a run.                                                   *)
(***************************************************************************)
C9_BracketRunWithinSpanMarked ==
    (pc = "returned" /\ IsString(text))
        => LET D == DelimiterOffsets(text, 0)
               flags == MarkFlags(nodes, FALSE)
           IN  \A i \in RunStarts(text) :
                   ((i..RunEnd(text, i)) \cap D = {})
                       => \A k \in i..RunEnd(text, i) : Marked(flags, D, k)

C9_Witness ==
    /\ pc = "returned"
    /\ text = Opener(KeyA) \o <<LB, "x", RB>> \o Closer
    /\ Shape(nodes) = <<StyledShape(MarkClass, <<TextNode(<<LB, "x", RB>>)>>)>>

(***************************************************************************)
(* C10.  Depth guard: with 9 or more nested levels {{a:{{a: ... }}}} the   *)
(* renderer recurses one depth per level from 0, and the call whose depth  *)
(* exceeds 8 returns the remaining inner text as one plain-text node.      *)
(***************************************************************************)
C10_DepthGuardReturnsInnerTextVerbatim ==
    \A n \in (DepthCeiling + 1)..MaxNest :
        (pc = "returned" /\ text = Nest(n, KeyA, <<"x">>, n))
            => /\ maxDepth = DepthCeiling + 1
               /\ nodes = <<TextNode(Nest(n - (DepthCeiling + 1), KeyA, <<"x">>,
                                          n - (DepthCeiling + 1)))>>

(***************************************************************************)
(* C11.  Unterminated constructs are not matched as tokens.                *)
(***************************************************************************)
\* A mark node made by the bracket pass: one text child, a run with glyphs.
IsBracketMark(n) ==
    /\ n.type = "span" /\ n.className = MarkClass
    /\ Len(n.children) = 1 /\ n.children[1].type = "text"
    /\ Len(n.children[1].value) >= 3
    /\ Head(n.children[1].value) = LB
    /\ n.children[1].value[Len(n.children[1].value)] = RB

\* Per character of the output text: is it inside the styled node of a
\* style token (a span that is not a bracket mark)?
RECURSIVE TokenFlags(_, _)
TokenFlags(ns, inToken) ==
    IF ns = <<>> THEN <<>>
    ELSE LET n == Head(ns)
         IN  (IF n.type = "text" THEN [k \in 1..Len(n.value) |-> inToken]
              ELSE TokenFlags(n.children, inToken \/ ~IsBracketMark(n)))
             \o TokenFlags(Tail(ns), inToken)

\* Offsets of an opener "{{key:" that no "}}" follows.
UnterminatedOpeners(s) ==
    LET closes == ClosesFrom(s, 0)
    IN  { i \in Offsets(s) :
            /\ CharAt(s, i) = "{"
            /\ \E e \in Offsets(s) : OpenerAt(s, i, e) /\ \A c \in closes : c <= e }

\* Offsets of an LB that no RB follows.
UnterminatedLBs(s) ==
    { i \in Offsets(s) :
        CharAt(s, i) = LB /\ \A j \in Offsets(s) : j > i => CharAt(s, j) # RB }

(***************************************************************************)
(* C11.  For every input string the renderer returns a node list, and the  *)
(* characters of an unterminated "{{key:" (no "}}" after it) and an        *)
(* unterminated LB (no RB after it) are in the output text unchanged,      *)
(* delimiters included: the opener is in no style token's node and the LB  *)
(* is in no mark node.                                                     *)
(***************************************************************************)
C11_UnterminatedFallsThrough ==
    (pc = "returned" /\ IsString(text))
        => LET D == DelimiterOffsets(text, 0)
               out == FlattenNodes(nodes)
               inToken == TokenFlags(nodes, FALSE)
               inMark == MarkFlags(nodes, FALSE)
           IN  /\ \A i \in UnterminatedOpeners(text) :
                      \A k \in i..ColonOf(text, i) :
                          /\ k \notin D
                          /\ OutputPlace(D, k) <= Len(out)
                          /\ out[OutputPlace(D, k)] = CharAt(text, k)
                          /\ ~inToken[OutputPlace(D, k)]
               /\ \A i \in UnterminatedLBs(text) :
                      /\ i \notin D
                      /\ OutputPlace(D, i) <= Len(out)
                      /\ out[OutputPlace(D, i)] = LB
                      /\ ~inMark[OutputPlace(D, i)]

C11_Witness ==
    /\ pc = "returned"
    /\ text = <<"x", LB>> \o Opener(KeyRed) \o <<"x">>
    /\ nodes = <<TextNode(text)>>

(***************************************************************************)
(* C12.  Ordering.  The source of a node is the run of kept input          *)
(* characters its text was produced from.  In the returned list and in     *)
(* every child list the nodes' sources follow one another from left to     *)
(* right: each node's text is the kept input text that starts where the    *)
(* text of the nodes before it ends.                                       *)
(***************************************************************************)
RECURSIVE InSourceOrder(_, _, _)
InSourceOrder(ns, kept, at) ==
    IF ns = <<>> THEN TRUE
    ELSE LET n == Head(ns)
             t == FlattenNodes(<<n>>)
         IN  /\ at + Len(t) <= Len(kept)
             /\ SubSeq(kept, at + 1, at + Len(t)) = t
             /\ n.type = "span" => InSourceOrder(n.children, kept, at)
             /\ InSourceOrder(Tail(ns), kept, at + Len(t))

C12_NodesInSourceOrder ==
    (pc = "returned" /\ IsString(text))
        => InSourceOrder(nodes, StripMatchedDelimiters(text), 0)

C12_Witness ==
    /\ pc = "returned"
    /\ text = <<LB, "x", RB, "x">> \o Opener(KeyRed) \o <<"x">> \o Closer
    /\ Shape(nodes) =
           <<StyledShape(MarkClass, <<TextNode(<<LB, "x", RB>>)>>),
             TextNode(<<"x">>),
             StyledShape(RICH_TEXT_STYLES[KeyRed], <<TextNode(<<"x">>)>>)>>

(***************************************************************************)
(* C13.  Identity of the nodes of a sibling list.                          *)
(***************************************************************************)
HasKey(n) == "key" \in DOMAIN n

\* Every node of the list and of every child list below it.
RECURSIVE AllNodes(_)
AllNodes(ns) ==
    IF ns = <<>> THEN <<>>
    ELSE LET n == Head(ns)
         IN  <<n>> \o (IF n.type = "span" THEN AllNodes(n.children) ELSE <<>>)
             \o AllNodes(Tail(ns))

\* No two keyed nodes of the list share a key, and likewise in every child list.
RECURSIVE KeysDistinct(_)
KeysDistinct(ns) ==
    /\ \A p \in 1..Len(ns), q \in 1..Len(ns) :
           (p < q /\ HasKey(ns[p]) /\ HasKey(ns[q])) => ns[p].key # ns[q].key
    /\ \A p \in 1..Len(ns) : ns[p].type = "span" => KeysDistinct(ns[p].children)

(***************************************************************************)
(* C13.  Original: in every sibling list every node has a key, and no two  *)
(* nodes of a list have the same key.                                      *)
(***************************************************************************)
C13_EveryNodeKeyedUniquely ==
    (pc = "returned" /\ IsString(text))
        => /\ \A p \in 1..Len(AllNodes(nodes)) : HasKey(AllNodes(nodes)[p])
           /\ KeysDistinct(nodes)

(***************************************************************************)
(* C13, amended.  In every sibling list every styled node has a key and no *)
(* two styled nodes of a list have the same key; a plain-text node is a    *)
(* bare string and has no key.                                             *)
(***************************************************************************)
KeyedIffStyled(n) == HasKey(n) <=> n.type = "span"

C13_StyledNodesKeyedUniquely ==
    (pc = "returned" /\ IsString(text))
        => /\ \A p \in 1..Len(AllNodes(nodes)) : KeyedIffStyled(AllNodes(nodes)[p])
           /\ KeysDistinct(nodes)

C13_Witness ==
    /\ pc = "returned"
    /\ text = Opener(KeyA) \o <<LB, "x", RB>> \o Closer \o <<LB, "x", RB, "x">>
    /\ nodes = <<Span("rt-s-0-tail-mark-0", MarkClass, <<TextNode(<<LB, "x", RB>>)>>),
                 Span("rt-tail-mark-0", MarkClass, <<TextNode(<<LB, "x", RB>>)>>),
                 TextNode(<<"x">>)>>

(***************************************************************************)
(* C16.  The bracket-highlight pass on a span of text.                     *)
(***************************************************************************)
\* The nodes the pass is to emit from offset p on: the gap before the next
\* bracket run when it is not empty, the run as a mark node, and so on; the
\* rest of the span after the last run.
RECURSIVE ExpectedHighlights(_, _)
ExpectedHighlights(s, p) ==
    LET starts == { i \in RunStarts(s) : i >= p }
    IN  IF starts = {}
        THEN IF p < Len(s) THEN <<TextNode(Slice(s, p, Len(s)))>> ELSE <<>>
        ELSE LET i == MinOf(starts)
                 j == RunEnd(s, i)
             IN  (IF i > p THEN <<TextNode(Slice(s, p, i))>> ELSE <<>>)
                 \o <<StyledShape(MarkClass, <<TextNode(Slice(s, i, j + 1))>>)>>
                 \o ExpectedHighlights(s, j + 1)

(***************************************************************************)
(* C16.  For every span of text, renderBracketHighlights emits in order a  *)
(* plain-text node for each non-empty gap between bracket runs and one     *)
(* mark node per run, whose text is the run with both glyphs; the emitted  *)
(* texts concatenate to the span, and an empty pair is not a run.          *)
(***************************************************************************)
C16_BracketHighlightPass ==
    pc = "highlighted"
        => /\ Shape(nodes) = ExpectedHighlights(text, 0)
           /\ FlattenNodes(nodes) = text
           /\ \A p \in 1..Len(nodes) :
                 IF nodes[p].type = "text"
                 THEN nodes[p].value # <<>>
                 ELSE /\ nodes[p].className = MarkClass
                      /\ Len(nodes[p].children) = 1
                      /\ LET run == nodes[p].children[1].value
                         IN  /\ Len(run) >= 3
                             /\ run[1] = LB /\ run[Len(run)] = RB
                             /\ \A k \in 2..(Len(run) - 1) : run[k] # RB
           /\ (text = <<LB, RB>> => nodes = <<TextNode(text)>>)

C16_Witness ==
    /\ pc = "highlighted"
    /\ text = <<"x", LB, "x", RB, "x">>
    /\ Shape(nodes) = <<TextNode(<<"x">>),
                        StyledShape(MarkClass, <<TextNode(<<LB, "x", RB>>)>>),
                        TextNode(<<"x">>)>>

(***************************************************************************)
(* C17.  In the style-token scan a token that opens with "{{key:" ends at  *)
(* the first "}}" that follows the opener, even when its content holds a   *)
(* literal "{{": the captured content holds no "}}", the scan resumes      *)
(* immediately after that "}}", and matches do not overlap.                *)
(***************************************************************************)
\* The offsets at which the style-token scan of s calls exec, from offset p
\* on: p, and the offset just after each match found.
RECURSIVE ScanPositions(_, _)
ScanPositions(s, p) ==
    LET m == StyleExec(s, p)
    IN  IF m.found THEN {p} \cup ScanPositions(s, RegexAdvance(m)) ELSE {p}

C17_TokenEndsAtFirstClose ==
    (pc = "returned" /\ IsString(text))
        => /\ \A p \in ScanPositions(text, 0) :
                 LET m == StyleExec(text, p)
                 IN  m.found =>
                        LET colon == m.index + 2 + Len(m.rawStyleKey)
                            close == m.index + Len(m.full) - 2
                            next == StyleExec(text, close + 2)
                        IN  /\ m.index >= p
                            /\ OpenerAt(text, m.index, colon)
                            /\ close = MinOf(ClosesFrom(text, colon + 1))
                            /\ m.rawContent = Slice(text, colon + 1, close)
                            /\ ClosesFrom(m.rawContent, 0) = {}
                            /\ next.found => next.index >= close + 2
           \* The nodes after the first token are those of the text that
           \* starts immediately after its "}}".
           /\ LET m == StyleExec(text, 0)
              IN  m.found =>
                     LET end == m.index + Len(m.full)
                     IN  Shape(nodes)
                           = Shape(renderBracketHighlights(Slice(text, 0, m.index), "rt"))
                             \o Shape(TokenNodes(Trim(m.rawStyleKey), "rt", 0,
                                                 renderBracketHighlights(m.rawContent, "rt")))
                             \o Shape(renderRichText(SliceFrom(text, end)))

C17_Witness ==
    /\ pc = "returned"
    /\ text = Opener(KeyRed) \o Opener(KeyRed) \o <<"x">> \o Closer \o Closer
    /\ Shape(nodes) = <<StyledShape(StyleLookup(KeyRed),
                                    <<TextNode(Opener(KeyRed) \o <<"x">>)>>),
                        TextNode(Closer)>>

(***************************************************************************)
(* C18.  For every input string renderRichTextInternal is never invoked    *)
(* with a depth greater than 1: the content captured by the style-token    *)
(* pattern holds no complete style token, so a recursive call finds no     *)
(* token to recurse into, and the depth guard is never taken.              *)
(***************************************************************************)
C18_DepthNeverAboveOne ==
    (pc = "returned" /\ IsString(text))
        => /\ maxDepth <= 1
           /\ ~DepthExceeded(maxDepth)
           /\ \A p \in ScanPositions(text, 0) :
                 LET m == StyleExec(text, p)
                 IN  m.found => ~StyleExec(m.rawContent, 0).found

C18_Witness ==
    /\ pc = "returned"
    /\ text = Nest(MaxNest, KeyA, <<"x">>, MaxNest)
    /\ maxDepth = 1

(***************************************************************************)
(* C15.  Termination of renderRichText.                                    *)
(***************************************************************************)
\* The match the next loop test of the running activation will find.
PendingMatch ==
    IF Top.fn = "style" THEN StyleExec(Top.s, Top.regexLastIndex)
    ELSE BracketExec(Top.s, Top.regexLastIndex)

\* A loop iteration that finds a match consumes a non-empty match, and the
\* scan position of that activation strictly advances within its text.
ScanAdvances ==
    (pc = "running" /\ Top.at = "exec" /\ PendingMatch.found)
        => LET f == Top
               g == stack'[Len(stack)]
           IN  /\ Len(PendingMatch.full) > 0
               /\ g.regexLastIndex > f.regexLastIndex
               /\ g.regexLastIndex <= Len(f.s)
               /\ g.lastIndex >= f.lastIndex
               /\ g.fn = "bracket" => g.lastIndex = g.regexLastIndex

\* The activations on the stack: depths grow by one from 0, stay within the
\* ceiling, token content is shorter than the text it was found in, and a
\* bracket scan calls nothing.
RecursionBounded ==
    pc = "running"
        => /\ Len(stack) <= DepthCeiling + 3
           /\ stack[1].fn = "style" /\ stack[1].depth = 0
           /\ \A k \in 1..Len(stack) :
                 /\ stack[k].depth <= DepthCeiling + 1
                 /\ stack[k].regexLastIndex \in 0..Len(stack[k].s)
                 /\ k < Len(stack) =>
                       /\ stack[k].fn = "style"
                       /\ Len(stack[k + 1].s) <= Len(stack[k].s)
                       /\ stack[k + 1].fn = "style" =>
                             /\ stack[k + 1].depth = stack[k].depth + 1
                             /\ Len(stack[k + 1].s) < Len(stack[k].s)

(***************************************************************************)
(* C15.  renderRichText terminates for every input: each iteration of the  *)
(* style-token scan and of the bracket scan consumes a non-empty match, so *)
(* the scan position strictly advances; the recursion on token content is  *)
(* bounded; and every call returns.                                        *)
(***************************************************************************)
C15_RenderTerminates ==
    /\ []RecursionBounded
    /\ [][ScanAdvances]_vars
    /\ <>(pc = "returned")

\* The scan of the outer text has consumed its token, and the bracket scan
\* of the token's content, interpreted at depth 1, has consumed its run.
C15_Witness ==
    /\ pc = "running"
    /\ text = <<"x">> \o Opener(KeyA) \o <<LB, "x", RB>> \o Closer
    /\ Len(stack) = 3
    /\ stack[1].nodes = <<TextNode(<<"x">>)>> /\ stack[1].regexLastIndex = Len(text)
    /\ stack[2].depth = 1 /\ stack[2].at = "tail"
    /\ stack[3].fn = "bracket" /\ stack[3].regexLastIndex = 3

(***************************************************************************)
(* Vocabulary of the hook properties.                                      *)
(***************************************************************************)
\* The effect has run and every started load has run to its end.
AllSettled ==
    /\ hook \in Hooks
    /\ ~effectDue
    /\ \A i \in 1..Len(loads) : loads[i].stage = "done"

\* The load started for the current filePath: the last one started.
CurrentLoad == loads[Len(loads)]

(***************************************************************************)
(* C19.  In every content hook, for every argument value, loading starts   *)
(* true and is false once the effect has run and every started load has    *)
(* settled, whatever the outcome of the fetch.                             *)
(***************************************************************************)
C19_LoadingEndsOnceSettled ==
    /\ (hook \in Hooks /\ effectDue /\ changes = 0) => loading
    /\ AllSettled => ~loading

(***************************************************************************)
(* C20.  useMarkdownContent after any changes of filePath, once every      *)
(* started load has settled: content is the text fetched for the current   *)
(* filePath when that load succeeded, and error is non-null only if the    *)
(* load for the current filePath failed.                                   *)
(***************************************************************************)
C20_SettledStateIsOfCurrentPath ==
    (hook = "useMarkdownContent" /\ AllSettled /\ filePath # "")
        => /\ CurrentLoad.path = filePath
           /\ CurrentLoad.outcome = "ok" => data = Fetched(Url(hook, filePath))
           /\ error # Null => CurrentLoad.outcome = "failed"

(***************************************************************************)
(* C21.  The hooks without an argument, for one mount.                     *)
(***************************************************************************)
NoArgumentHooks == { "useContentIndex", "useUndergradSummary", "useUndergradTimeline" }

\* The loaded data and the error are not both set.
DataXorError == hook \in NoArgumentHooks => (data = Null \/ error = Null)

\* Once loading is false, a step changes neither the data nor the error.
FinalOnceLoaded ==
    (hook \in NoArgumentHooks /\ ~loading) => (data' = data /\ error' = error)

(***************************************************************************)
(* C21.  In useContentIndex, useUndergradSummary and useUndergradTimeline, *)
(* for one mount, the loaded data and the error are never both non-null,   *)
(* and once loading has become false neither value changes again.          *)
(***************************************************************************)
C21_DataXorErrorAndFinal == []DataXorError /\ [][FinalOnceLoaded]_vars

\* The single load of a mount has delivered its data and loading is false.
C21_Witness ==
    /\ hook = "useUndergradSummary"
    /\ ~loading
    /\ loads = <<[path |-> "", stage |-> "done", outcome |-> "ok"]>>
    /\ data = Fetched(Url(hook, ""))
    /\ error = Null

(***************************************************************************)
(* C22.  The screen the Undergrad page shows.                              *)
(***************************************************************************)
SomeLoading == \E h \in PageHooks : cells[h].loading

SomeError == \E h \in PageHooks : cells[h].error # Null

(***************************************************************************)
(* C22.  The Undergrad page shows the loading screen in every state where  *)
(* at least one of the three hooks is still loading, even if another has   *)
(* already failed; the error screen exactly when none is loading and at    *)
(* least one reported an error; the tabs only when none is loading and     *)
(* none reported an error.                                                 *)
(***************************************************************************)
C22_ScreenFollowsHooks ==
    screen.kind # "none"
        => /\ SomeLoading => screen.kind = "loading"
           /\ screen.kind = "error" <=> (~SomeLoading /\ SomeError)
           /\ screen.kind = "tabs" => (~SomeLoading /\ ~SomeError)
           /\ screen.kind = "error" =>
                 \E h \in PageHooks : screen.message = cells[h].error

\* The summary has failed while the index is still being fetched: the page
\* shows the loading screen.
C22_Witness ==
    /\ cells["useUndergradSummary"].error = NotOkMessage("useUndergradSummary", "")
    /\ cells["useContentIndex"].stage = "fetch"
    /\ cells["useUndergradTimeline"].stage = "done"
    /\ screen.kind = "loading"

(***************************************************************************)
(* C23.  ScaledImage lightbox: after any sequence of open and close events *)
(* over the instances of the page, whenever no lightbox is open the body's *)
(* overflow style is the value it had before the first lightbox was        *)
(* opened, and it is 'hidden' while any lightbox is open.                  *)
(***************************************************************************)
C23_OverflowRestored ==
    IF \E i \in DOMAIN isOpen : isOpen[i]
    THEN bodyOverflow = "hidden"
    ELSE bodyOverflow = initialOverflow

(***************************************************************************)
(* C24.  getLatestAnnouncements.                                           *)
(***************************************************************************)
\* By date descending.
SortedByDateDescending(arr) ==
    \A i \in 1..(Len(arr) - 1) : GetTime(arr[i].date) >= GetTime(arr[i + 1].date)

(***************************************************************************)
(* C24.  getLatestAnnouncements(announcements, limit) leaves the caller's  *)
(* array unchanged, the same elements in the same order, for every input   *)
(* array and limit; the returned array is sorted by date descending and    *)
(* cut to at most limit elements.                                          *)
(***************************************************************************)
C24_CallerArrayUnchanged ==
    called
        => /\ announcements = passed
           /\ SortedByDateDescending(latest)
           /\ EffectiveLimit(limit) >= 0 => Len(latest) <= EffectiveLimit(limit)

====
